---- MODULE Spec2Model ----
(***************************************************************************)
(* HitaSpeed (mvs_main.ino): phase-angle speed control of a mains motor.   *)
(* The model covers the voltage-threshold edge handler, the delay ramp,    *)
(* the timer-1 trigger scheduler and the compare-match interrupt routine,  *)
(* together with the timer-1 hardware they program.                        *)
(***************************************************************************)
EXTENDS Integers, Sequences, FiniteSets, TLC

(***************************************************************************)
(* Machine arithmetic.                                                     *)
(***************************************************************************)

\* unsigned int / uint16_t / TCNT1 / OCR1A are 16 bits wide on the AVR.
Two16 == 2^16

\* Conversion of an int to unsigned int (the comparisons of triggerDelay
\* are made in unsigned arithmetic, minDelayMics being unsigned).
AsUnsigned(x) == x % Two16

\* Conversion of an unsigned int to int (16 bits, two's complement).
AsInt(x) == IF x % Two16 >= Two16 \div 2 THEN (x % Two16) - Two16 ELSE x % Two16

\* A time in microseconds, held in 16-bit limbs: w*2^32 + hi*2^16 + lo.
\* micros() and the two timestamps are unsigned long (32 bits): w = 0.
\* The elapsed real time between two edges is not bounded by 2^32.
Mics(w, hi, lo) == [w |-> w, hi |-> hi, lo |-> lo]

MicsOf(n) == Mics(0, n \div Two16, n % Two16)

\* Exact sum of two times.
MicsAdd(a, b) ==
    LET lo == a.lo + b.lo
        hi == a.hi + b.hi + lo \div Two16
    IN  Mics(a.w + b.w + hi \div Two16, hi % Two16, lo % Two16)

\* Truncation to unsigned long.
AsUnsignedLong(a) == Mics(0, a.hi, a.lo)

\* a - b in unsigned long arithmetic (modulo 2^32).
UnsignedLongSub(a, b) ==
    LET lo == a.lo - b.lo
        hi == a.hi - b.hi + lo \div Two16
    IN  Mics(0, hi % Two16, lo % Two16)

\* a > n, for a time a and a number 0 <= n < 2^16.
MicsExceeds(a, n) == a.w > 0 \/ a.hi > 0 \/ a.lo > n

(***************************************************************************)
(* float (IEEE 754 binary32, round to nearest even).  A float is held as   *)
(* an integer count of 2^-17: every float in [64, 16384) is such a count,  *)
(* and the running averages stay in that range (FloatInRange).             *)
(***************************************************************************)
FloatUnit == 2^17

\* (float)n for an integer 0 <= n <= 10000: exact.
ToFloat(n) == n * FloatUnit

RECURSIVE Log2(_)
Log2(v) == IF v < 2 THEN 0 ELSE 1 + Log2(v \div 2)

\* The spacing of the floats around the value v > 0 (in units of 2^-17):
\* 24 significant bits.
Ulp(v) == IF v < 2^24 THEN 1 ELSE 2^(Log2(v) - 23)

\* The float nearest to v + num/den (v > 0, 0 <= num < den), ties to even.
RoundFloat(v, num, den) ==
    LET u == Ulp(v)
        q == v \div u
        s == v % u
        twice == 2 * (s * den + num)
        up == twice > u * den \/ (twice = u * den /\ q % 2 = 1)
    IN  IF up THEN (q + 1) * u ELSE q * u

\* The float nearest to the integer count d of either sign.
RoundFloatSigned(d) ==
    IF d >= 0 THEN RoundFloat(d, 0, 1) ELSE 0 - RoundFloat(0 - d, 0, 1)

\* A moving average that weighs the sample by 1/16.
MovingAverageBy16(avg, deltaMics) ==
    LET diff == RoundFloatSigned(ToFloat(deltaMics) - avg)
    IN  RoundFloat(avg + diff \div 16, diff % 16, 16)

\* avg += ((float)deltaMics - avg) / 32.0
\* The difference is rounded to float, the division by 32 is exact, the
\* sum is rounded to float.
MovingAverage(avg, deltaMics) ==
    LET diff == RoundFloatSigned(ToFloat(deltaMics) - avg)
    IN  RoundFloat(avg + diff \div 32, diff % 32, 32)

\* (unsigned int)((avg + 1.0) / 2): the sum is rounded to float, halving is
\* exact, the conversion truncates.
MicsSinceZeroCross(avg) == RoundFloat(avg + FloatUnit, 0, 1) \div (2 * FloatUnit)

(***************************************************************************)
(* Program constants.                                                      *)
(***************************************************************************)
halfPeriodMics == 10000

minDelayMics == 200

maxDelayMics == halfPeriodMics - 1000

InitialStepMics == -17

\* Bit positions of the timer-1 registers used by the sketch.
CS10 == 0

CS11 == 1

WGM12 == 3

OCIE1A == 1

\* delayMicroseconds(40): the width of the triac trigger pulse.
TriggerPulseMics == 40

\* (1<<CS10) | (1<<CS11) | (1<<WGM12): prescaler 64, CTC mode.
TimerRunCTC == 2^CS10 + 2^CS11 + 2^WGM12

(***************************************************************************)
(* Bounds of the model.                                                    *)
(***************************************************************************)
\* Number of edge-handler invocations explored from one initial state.
MaxEdges == 2

\* Most timer ticks (of 4 us) that elapse while one edge handler runs.
MaxHandlerTicks == 5

\* Most timer ticks that elapse between the entry of the compare-match
\* routine and its write to TCCR1B.
MaxISRWindowTicks == 1

(***************************************************************************)
(* State.                                                                  *)
(***************************************************************************)
VARIABLES
    avgAboveThMics,          \* float
    avgBelowThMics,          \* float
    triacTriggerHoldoffMics, \* volatile int
    stepMics,                \* static int of triggerDelay
    tsLastAboveThMics,       \* static unsigned long of voltageCrossedThreshold
    tsLastBelowThMics,       \* static unsigned long of voltageCrossedThreshold
    micros,                  \* value of micros() at the latest edge handler
    TCNT1, OCR1A, TCCR1A, TCCR1B, TIMSK1,  \* timer-1 registers
    OCF1A,                   \* compare-match A interrupt flag (TIFR1)
    triacTriggerPin,         \* TRIAC_TRIGGER_PIN output level
    detectOutPin,            \* DETECT_OUT_PIN output level
    isrPc,                   \* position of ISR(TIMER1_COMPA_vect)
    edgePc,                  \* position of the edge handler in scheduleTriacTrigger
    \* Observations of the run (not program state):
    nEdges,                  \* edge handlers run so far
    lastEdge,                \* what the latest edge handler did
    realSinceRising,         \* real time since the latest rising edge, << >> if none
    realSinceFalling,        \* real time since the latest falling edge, << >> if none
    lastCall,                \* latest calls of the delay generator and the scheduler
    arm,                     \* the latest arming of the timer and the pulses after it
    writers                  \* which handler has written which register or variable

vars == <<avgAboveThMics, avgBelowThMics, triacTriggerHoldoffMics, stepMics,
          tsLastAboveThMics, tsLastBelowThMics, micros, TCNT1, OCR1A, TCCR1A, TCCR1B,
          TIMSK1, OCF1A, triacTriggerPin, detectOutPin, isrPc, edgePc, nEdges, lastEdge,
          realSinceRising, realSinceFalling, lastCall, arm, writers>>

\* The state as one value: the operations below map a state to a state.
Now ==
    [avgAboveThMics |-> avgAboveThMics, avgBelowThMics |-> avgBelowThMics,
     triacTriggerHoldoffMics |-> triacTriggerHoldoffMics, stepMics |-> stepMics,
     tsLastAboveThMics |-> tsLastAboveThMics, tsLastBelowThMics |-> tsLastBelowThMics,
     micros |-> micros, TCNT1 |-> TCNT1, OCR1A |-> OCR1A, TCCR1A |-> TCCR1A,
     TCCR1B |-> TCCR1B, TIMSK1 |-> TIMSK1, OCF1A |-> OCF1A,
     triacTriggerPin |-> triacTriggerPin, detectOutPin |-> detectOutPin, isrPc |-> isrPc,
     edgePc |-> edgePc,
     nEdges |-> nEdges, lastEdge |-> lastEdge, realSinceRising |-> realSinceRising,
     realSinceFalling |-> realSinceFalling, lastCall |-> lastCall, arm |-> arm,
     writers |-> writers]

\* The state is s.
Is(s) ==
    /\ avgAboveThMics = s.avgAboveThMics /\ avgBelowThMics = s.avgBelowThMics
    /\ triacTriggerHoldoffMics = s.triacTriggerHoldoffMics /\ stepMics = s.stepMics
    /\ tsLastAboveThMics = s.tsLastAboveThMics /\ tsLastBelowThMics = s.tsLastBelowThMics
    /\ micros = s.micros /\ TCNT1 = s.TCNT1 /\ OCR1A = s.OCR1A /\ TCCR1A = s.TCCR1A
    /\ TCCR1B = s.TCCR1B /\ TIMSK1 = s.TIMSK1 /\ OCF1A = s.OCF1A
    /\ triacTriggerPin = s.triacTriggerPin /\ detectOutPin = s.detectOutPin
    /\ isrPc = s.isrPc /\ edgePc = s.edgePc /\ nEdges = s.nEdges /\ lastEdge = s.lastEdge
    /\ realSinceRising = s.realSinceRising /\ realSinceFalling = s.realSinceFalling
    /\ lastCall = s.lastCall /\ arm = s.arm /\ writers = s.writers

\* The next state is s.
Becomes(s) ==
    /\ avgAboveThMics' = s.avgAboveThMics /\ avgBelowThMics' = s.avgBelowThMics
    /\ triacTriggerHoldoffMics' = s.triacTriggerHoldoffMics /\ stepMics' = s.stepMics
    /\ tsLastAboveThMics' = s.tsLastAboveThMics /\ tsLastBelowThMics' = s.tsLastBelowThMics
    /\ micros' = s.micros /\ TCNT1' = s.TCNT1 /\ OCR1A' = s.OCR1A /\ TCCR1A' = s.TCCR1A
    /\ TCCR1B' = s.TCCR1B /\ TIMSK1' = s.TIMSK1 /\ OCF1A' = s.OCF1A
    /\ triacTriggerPin' = s.triacTriggerPin /\ detectOutPin' = s.detectOutPin
    /\ isrPc' = s.isrPc /\ edgePc' = s.edgePc /\ nEdges' = s.nEdges /\ lastEdge' = s.lastEdge
    /\ realSinceRising' = s.realSinceRising /\ realSinceFalling' = s.realSinceFalling
    /\ lastCall' = s.lastCall /\ arm' = s.arm /\ writers' = s.writers

\* An edge handler that runs with interrupts enabled.
InterruptsEnabledInEdgeHandler(s) == s.isrPc = "idle"

\* Interrupts are enabled while no interrupt routine executes: the
\* compare-match routine is declared with ISR() and the edge handler is
\* called from the external-interrupt routine, both of which run with the
\* global interrupt flag cleared until they return.
InterruptsEnabled(s) == s.isrPc = "idle" /\ s.edgePc = "idle"

\* The state s after `handler` ("edge" or "expiry") has written the
\* registers or variables `names`.
Wrote(s, handler, names) ==
    [s EXCEPT !.writers = @ \cup {<<handler, n>> : n \in names}]

LOW == "LOW"

HIGH == "HIGH"

(***************************************************************************)
(* Timer 1 hardware.                                                       *)
(***************************************************************************)
\* The timer registers as one value.
Regs(tcnt, ocr, a, b, flag) ==
    [TCNT1 |-> tcnt, OCR1A |-> ocr, TCCR1A |-> a, TCCR1B |-> b, OCF1A |-> flag]

RegsOf(s) == Regs(s.TCNT1, s.OCR1A, s.TCCR1A, s.TCCR1B, s.OCF1A)

WithRegs(s, r) ==
    [s EXCEPT !.TCNT1 = r.TCNT1, !.OCR1A = r.OCR1A, !.TCCR1A = r.TCCR1A,
              !.TCCR1B = r.TCCR1B, !.OCF1A = r.OCF1A]

\* The clock-select bits CS12:CS10 of TCCR1B: the timer counts when not 0.
Running(r) == r.TCCR1B % 8 # 0

\* Ticks until the compare-match flag is raised: in CTC mode the counter
\* counts up to OCR1A and the next tick clears it and sets OCF1A.
TicksToMatch(r) ==
    IF r.TCNT1 <= r.OCR1A THEN r.OCR1A - r.TCNT1 + 1
    ELSE Two16 - r.TCNT1 + r.OCR1A + 1

\* The registers after n timer ticks.  The counter keeps running after a
\* match: CTC mode is periodic until the clock select bits are cleared.
TimerAdvance(n, r) ==
    IF ~Running(r) \/ n = 0 THEN r
    ELSE IF n < TicksToMatch(r)
    THEN [r EXCEPT !.TCNT1 = (r.TCNT1 + n) % Two16]
    ELSE [r EXCEPT !.TCNT1 = (n - TicksToMatch(r)) % (r.OCR1A + 1), !.OCF1A = TRUE]

\* The record of the latest arming after the timer has counted n more ticks.
ArmAfterTicks(a, n, r) == IF Running(r) THEN [a EXCEPT !.ticks = @ + n] ELSE a

\* The state after the timer has counted n ticks.
TimerCounts(s, n) ==
    [WithRegs(s, TimerAdvance(n, RegsOf(s))) EXCEPT !.arm = ArmAfterTicks(s.arm, n, RegsOf(s))]

(***************************************************************************)
(* DelayGenerator.                                                         *)
(***************************************************************************)
\* A soft start that resets the holdoff to the top of the ramp instead.
softStartAtMaxDelay(s) ==
    [Wrote(s, "edge", {"triacTriggerHoldoffMics"}) EXCEPT
        !.triacTriggerHoldoffMics = AsInt(maxDelayMics),
        !.lastCall.op = "softStart",
        !.lastCall.run = << >>]

\* A soft start that also restarts the ramp downwards.
softStartResetsStep(s) ==
    [Wrote(s, "edge", {"triacTriggerHoldoffMics", "stepMics"}) EXCEPT
        !.triacTriggerHoldoffMics = AsInt(halfPeriodMics),
        !.stepMics = InitialStepMics,
        !.lastCall.op = "softStart",
        !.lastCall.run = << >>]

\* A soft start that leaves the holdoff where the ramp is.
softStartKeepsHoldoff(s) ==
    [s EXCEPT !.lastCall.op = "softStart", !.lastCall.run = << >>]

\* softStart(), called by the edge handler.  lastCall.run restarts: it
\* holds the first delays returned since the latest soft start (or since
\* initialisation).
softStart(s) ==
    [Wrote(s, "edge", {"triacTriggerHoldoffMics"}) EXCEPT
        !.triacTriggerHoldoffMics = AsInt(halfPeriodMics),
        !.lastCall.op = "softStart",
        !.lastCall.run = << >>]

\* A ramp whose upper clamp tests against halfPeriodMics.
NextDelayClampsAtHalfPeriod(holdoff, step) ==
    LET sum == AsInt(holdoff + step)
    IN  IF AsUnsigned(sum) <= minDelayMics
        THEN [holdoff |-> minDelayMics, step |-> AsInt(0 - step)]
        ELSE IF AsUnsigned(sum) >= halfPeriodMics
        THEN [holdoff |-> maxDelayMics, step |-> AsInt(0 - step)]
        ELSE [holdoff |-> sum, step |-> step]

\* A triggerDelay() body without the upper clamp.
NextDelayWithoutUpperClamp(holdoff, step) ==
    LET sum == AsInt(holdoff + step)
    IN  IF AsUnsigned(sum) <= minDelayMics
        THEN [holdoff |-> minDelayMics, step |-> AsInt(0 - step)]
        ELSE [holdoff |-> sum, step |-> step]

\* A triggerDelay() body that keeps the step at the lower clamp.
NextDelayKeepsStepAtMinimum(holdoff, step) ==
    LET sum == AsInt(holdoff + step)
    IN  IF AsUnsigned(sum) <= minDelayMics
        THEN [holdoff |-> minDelayMics, step |-> step]
        ELSE IF AsUnsigned(sum) >= maxDelayMics
        THEN [holdoff |-> maxDelayMics, step |-> AsInt(0 - step)]
        ELSE [holdoff |-> sum, step |-> step]

\* The body of triggerDelay(): the new holdoff and the new step.
NextDelay(holdoff, step) ==
    LET sum == AsInt(holdoff + step)
    IN  IF AsUnsigned(sum) <= minDelayMics
        THEN [holdoff |-> minDelayMics, step |-> AsInt(0 - step)]
        ELSE IF AsUnsigned(sum) >= maxDelayMics
        THEN [holdoff |-> maxDelayMics, step |-> AsInt(0 - step)]
        ELSE [holdoff |-> sum, step |-> step]

\* Number of returned delays kept in lastCall.run.
RunKept == 3

\* triggerDelay(), called by the edge handler: the value returned is
\* lastCall.delay[1].  The step is written when the ramp turns.
triggerDelay(s) ==
    LET td == NextDelay(s.triacTriggerHoldoffMics, s.stepMics)
        written == IF td.step = s.stepMics THEN {"triacTriggerHoldoffMics"}
                   ELSE {"triacTriggerHoldoffMics", "stepMics"}
    IN  [Wrote(s, "edge", written) EXCEPT
            !.triacTriggerHoldoffMics = td.holdoff,
            !.stepMics = td.step,
            !.lastCall.op = "triggerDelay",
            !.lastCall.delay = <<AsUnsigned(td.holdoff)>>,
            !.lastCall.run = IF Len(@) < RunKept
                             THEN Append(@, AsUnsigned(td.holdoff)) ELSE @]

(***************************************************************************)
(* TriggerScheduler.                                                       *)
(***************************************************************************)
\* A cutoff test that lets one more microsecond through.
PastCutoffOneLater(delayMics) == delayMics > halfPeriodMics - halfPeriodMics \div 32 + 1

\* The cutoff test of scheduleTriacTrigger.
PastCutoff(delayMics) == delayMics > halfPeriodMics - halfPeriodMics \div 32

\* const uint16_t ticks = ...
ScheduleTicks(micsSinceZeroCross, delayMics) ==
    IF delayMics > micsSinceZeroCross
    THEN ((delayMics - micsSinceZeroCross) \div 4) % Two16
    ELSE 0

\* A compare value without the minimum.
CompareValueNoMinimum(ticks) == ticks

\* The value written to OCR1A.
CompareValue(ticks) == IF ticks < 4 THEN 4 ELSE ticks

\* The registers scheduleTriacTrigger leaves.  It does not touch the
\* interrupt flag.
ScheduledRegs(micsSinceZeroCross, delayMics, r) ==
    IF PastCutoff(delayMics) THEN r
    ELSE [r EXCEPT !.TCNT1 = 0,
                   !.TCCR1A = 0,
                   !.OCR1A = CompareValue(ScheduleTicks(micsSinceZeroCross, delayMics)),
                   !.TCCR1B = TimerRunCTC]

\* scheduleTriacTrigger()
scheduleTriacTrigger(s, micsSinceZeroCross, delayMics) ==
    LET regs == ScheduledRegs(micsSinceZeroCross, delayMics, RegsOf(s))
    IN  [WithRegs(IF PastCutoff(delayMics) THEN s
                  ELSE Wrote(s, "edge", {"TCNT1", "TCCR1A", "OCR1A", "TCCR1B"}), regs) EXCEPT
            !.lastCall.sched = <<[m |-> micsSinceZeroCross, d |-> delayMics,
                                  before |-> RegsOf(s), after |-> regs, ticks |-> 0]>>,
            !.arm = IF PastCutoff(delayMics) THEN s.arm
                    ELSE [s.arm EXCEPT !.armed = TRUE, !.compare = regs.OCR1A,
                                       !.ticks = 0, !.pulses = 0, !.pulseTicks = 0]]

(***************************************************************************)
(* scheduleTriacTrigger() statement by statement: edgePc names the         *)
(* register write the edge handler makes next.                             *)
(***************************************************************************)
\* The call is entered and the cutoff is tested.
Sched_Begin(s, micsSinceZeroCross, delayMics) ==
    [s EXCEPT !.lastCall.sched = <<[m |-> micsSinceZeroCross, d |-> delayMics,
                                    before |-> RegsOf(s), after |-> RegsOf(s),
                                    ticks |-> 0]>>,
              !.edgePc = IF PastCutoff(delayMics) THEN "idle" ELSE "tcnt"]

\* A scheduler that leaves the counter where it is.
Sched_KeepTCNT1(s) == [s EXCEPT !.edgePc = "tccr1a"]

\* TCNT1 = 0
Sched_WriteTCNT1(s) ==
    [Wrote(s, "edge", {"TCNT1"}) EXCEPT !.TCNT1 = 0, !.edgePc = "tccr1a"]

\* TCCR1A = 0
Sched_WriteTCCR1A(s) ==
    [Wrote(s, "edge", {"TCCR1A"}) EXCEPT !.TCCR1A = 0, !.edgePc = "ocr1a"]

\* OCR1A = (ticks < 4 ? 4 : ticks)
Sched_WriteOCR1A(s) ==
    [Wrote(s, "edge", {"OCR1A"}) EXCEPT !.OCR1A = CompareValue(ScheduleTicks(s.lastCall.sched[1].m,
                                                   s.lastCall.sched[1].d)),
              !.edgePc = "tccr1b"]

\* TCCR1B = (1<<CS10) | (1<<CS11) | (1<<WGM12), and the return.  The
\* counter holds the ticks counted since it was reset.
Sched_WriteTCCR1B(s) ==
    LET t == [Wrote(s, "edge", {"TCCR1B"}) EXCEPT !.TCCR1B = TimerRunCTC, !.edgePc = "idle"]
    IN  [t EXCEPT !.lastCall.sched[1].after = RegsOf(t),
                  !.arm = [@ EXCEPT !.armed = TRUE, !.compare = t.OCR1A,
                                    !.ticks = t.TCNT1, !.pulses = 0, !.pulseTicks = 0]]

\* The timer counts one tick while scheduleTriacTrigger executes.
Sched_Tick(s) ==
    [TimerCounts(s, 1) EXCEPT !.lastCall.sched[1].ticks = @ + 1]

(***************************************************************************)
(* voltageCrossedThreshold(): one run of the edge handler.                 *)
(*   gap      real time since the previous edge handler (or since reset)   *)
(*   pinLevel what digitalRead(VOLTAGE_THR_PIN) returns                     *)
(*   ticks    timer ticks that elapse while the handler computes            *)
(***************************************************************************)
\* Real time since an edge, after a further gap.
Later(since, gap) == IF since = << >> THEN << >> ELSE <<MicsAdd(since[1], gap)>>

\* The branches of the handler: which average it updates, and whether it
\* asks for the next delay and schedules a trigger.
UpdatesBelow(rising, soft) == rising /\ ~soft

\* A handler that updates the above-threshold average on either edge.
UpdatesAboveOnAnyEdge(rising, soft) == ~soft

UpdatesAbove(rising, soft) == ~rising /\ ~soft

\* A handler that asks for the next delay and schedules on either edge.
SchedulesOnAnyEdge(rising, soft) == ~soft

Schedules(rising, soft) == rising /\ ~soft

\* The handler up to its call of scheduleTriacTrigger: the state reached
\* and the arguments of the call (<< >> when it makes no call).
HandlerBody(s, gap, pinLevel, ticks) ==
    LET nowMics == AsUnsignedLong(MicsAdd(s.micros, gap))
        rising == pinLevel = LOW
        deltaMics == IF rising THEN UnsignedLongSub(nowMics, s.tsLastBelowThMics)
                               ELSE UnsignedLongSub(nowMics, s.tsLastAboveThMics)
        soft == MicsExceeds(deltaMics, halfPeriodMics)
        opposite == Later(IF rising THEN s.realSinceFalling ELSE s.realSinceRising, gap)
        \* the timestamps, the debug pin, and what the run will be seen to do
        written == {IF rising THEN "tsLastAboveThMics" ELSE "tsLastBelowThMics"}
                   \cup (IF UpdatesBelow(rising, soft) THEN {"avgBelowThMics"} ELSE {})
                   \cup (IF UpdatesAbove(rising, soft) THEN {"avgAboveThMics"} ELSE {})
        s1 == [Wrote(TimerCounts(s, ticks), "edge", written) EXCEPT
                  !.micros = nowMics,
                  !.detectOutPin = IF rising THEN HIGH ELSE LOW,
                  !.tsLastAboveThMics = IF rising THEN nowMics ELSE @,
                  !.tsLastBelowThMics = IF rising THEN @ ELSE nowMics,
                  !.nEdges = @ + 1,
                  !.realSinceRising = IF rising THEN <<MicsOf(0)>> ELSE Later(@, gap),
                  !.realSinceFalling = IF rising THEN Later(@, gap) ELSE <<MicsOf(0)>>,
                  !.lastEdge = [dir |-> IF rising THEN "rising" ELSE "falling",
                                over |-> opposite # << >>
                                         /\ MicsExceeds(opposite[1], halfPeriodMics),
                                softStarted |-> soft,
                                avgWritten |-> IF UpdatesBelow(rising, soft) THEN "below"
                                               ELSE IF UpdatesAbove(rising, soft) THEN "above"
                                               ELSE "none",
                                scheduled |-> Schedules(rising, soft),
                                handlerTicks |-> IF Schedules(rising, soft)
                                                 THEN ticks ELSE 0]]
        \* the moving averages
        s2 == [s1 EXCEPT
                  !.avgBelowThMics = IF UpdatesBelow(rising, soft)
                                     THEN MovingAverage(@, deltaMics.lo) ELSE @,
                  !.avgAboveThMics = IF UpdatesAbove(rising, soft)
                                     THEN MovingAverage(@, deltaMics.lo) ELSE @]
        \* the argument triggerDelay() is evaluated, then the call is made
        s3 == triggerDelay(s2)
    IN  IF soft THEN [state |-> softStart(s2), call |-> << >>]
        ELSE IF Schedules(rising, soft)
        THEN [state |-> s3,
              call |-> <<[m |-> MicsSinceZeroCross(s3.avgBelowThMics),
                          d |-> s3.lastCall.delay[1]]>>]
        ELSE [state |-> s2, call |-> << >>]

\* The state the handler leaves after the body has been evaluated.
HandlerReturn(body) ==
    IF body.call = << >> THEN body.state
    ELSE scheduleTriacTrigger(body.state, body.call[1].m, body.call[1].d)

voltageCrossedThreshold(s, gap, pinLevel, ticks) ==
    CHOOSE t \in {HandlerReturn(body) : body \in {HandlerBody(s, gap, pinLevel, ticks)}} : TRUE

(***************************************************************************)
(* ISR(TIMER1_COMPA_vect), in four steps.                                  *)
(***************************************************************************)
\* The interrupt is taken (the hardware clears the flag) and the routine
\* drives the trigger pin low.
ISR_Enter(s) ==
    [s EXCEPT !.OCF1A = FALSE,
              !.triacTriggerPin = LOW,
              !.isrPc = "stop",
              !.arm = [@ EXCEPT !.pulses = @ + 1, !.pulseTicks = s.arm.ticks, !.heldMics = 0]]

\* A routine that clears TCCR1A only and leaves the timer running.
ISR_StopTimerKeepsClock(s, ticks) ==
    [Wrote(TimerCounts(s, ticks), "expiry", {"TCCR1A"}) EXCEPT
        !.TCCR1A = 0, !.isrPc = "hold"]

\* A routine that clears the compare value as well.
ISR_StopTimerClearsCompare(s, ticks) ==
    [Wrote(TimerCounts(s, ticks), "expiry", {"TCCR1A", "TCCR1B", "OCR1A"}) EXCEPT
        !.TCCR1A = 0, !.TCCR1B = 0, !.OCR1A = 0, !.isrPc = "hold"]

\* TCCR1A = 0; TCCR1B = 0; the timer has counted `ticks` since the entry.
ISR_StopTimer(s, ticks) ==
    [Wrote(TimerCounts(s, ticks), "expiry", {"TCCR1A", "TCCR1B"}) EXCEPT
        !.TCCR1A = 0, !.TCCR1B = 0, !.isrPc = "hold"]

\* delayMicroseconds(40)
ISR_Hold(s) ==
    [s EXCEPT !.isrPc = "release", !.arm.heldMics = @ + TriggerPulseMics]

\* digitalWrite(TRIAC_TRIGGER_PIN, HIGH) and the return from the routine.
ISR_Release(s) ==
    [s EXCEPT !.triacTriggerPin = HIGH, !.isrPc = "idle"]

(***************************************************************************)
(* Initial state: after setup().                                           *)
(***************************************************************************)
AfterSetup ==
    [avgAboveThMics |-> ToFloat(9600),
     avgBelowThMics |-> ToFloat(150),
     triacTriggerHoldoffMics |-> AsInt(halfPeriodMics),
     stepMics |-> InitialStepMics,
     tsLastAboveThMics |-> MicsOf(0),
     tsLastBelowThMics |-> MicsOf(0),
     micros |-> MicsOf(0),
     TCNT1 |-> 0, OCR1A |-> 0,
     TCCR1A |-> 0, TCCR1B |-> 0,          \* setupTimer1
     TIMSK1 |-> 2^OCIE1A,                 \* setupTimer1
     OCF1A |-> FALSE,
     triacTriggerPin |-> HIGH,            \* setup
     detectOutPin |-> LOW,
     isrPc |-> "idle",
     edgePc |-> "idle",
     nEdges |-> 0,
     lastEdge |-> [dir |-> "none", over |-> FALSE, softStarted |-> FALSE,
                   avgWritten |-> "none", scheduled |-> FALSE, handlerTicks |-> 0],
     realSinceRising |-> << >>,
     realSinceFalling |-> << >>,
     lastCall |-> [op |-> "none", delay |-> << >>, sched |-> << >>, run |-> << >>],
     arm |-> [armed |-> FALSE, compare |-> 0, ticks |-> 0, pulses |-> 0,
              pulseTicks |-> 0, heldMics |-> 0],
     writers |-> {}]

Init == Is(AfterSetup)

(***************************************************************************)
(* The program: edge interrupts, the timer counting, and the               *)
(* compare-match interrupt.  Both routines run with interrupts disabled:   *)
(* neither starts while the other executes.                                *)
(***************************************************************************)
\* Real time between edge handlers: a glitch, the two parts of a 50 Hz
\* half cycle, a mains interruption, and an interruption that lasts one
\* wrap of micros() (2^32 us) longer than 400 us.
Gaps == {MicsOf(16), MicsOf(400), MicsOf(9600), MicsOf(25000), Mics(1, 0, 400)}

EdgeInterrupt ==
    /\ InterruptsEnabled(Now)
    /\ nEdges < MaxEdges
    /\ \E gap \in Gaps, pinLevel \in {LOW, HIGH}, ticks \in 0..MaxHandlerTicks :
          \E s \in {voltageCrossedThreshold(Now, gap, pinLevel, ticks)} : Becomes(s)

\* Timer 1 counting while no handler runs.  A pending compare-match
\* interrupt is served before the counter gets anywhere, so the timer
\* counts freely only while the flag is clear: up to the compare value, or
\* through the match.
TimerCount ==
    /\ InterruptsEnabled(Now)
    /\ Running(RegsOf(Now))
    /\ ~OCF1A
    /\ \E n \in {TicksToMatch(RegsOf(Now)) - 1, TicksToMatch(RegsOf(Now))} :
          /\ n > 0
          /\ Becomes(TimerCounts(Now, n))

CompareMatchInterrupt ==
    /\ InterruptsEnabled(Now)
    /\ OCF1A
    /\ (TIMSK1 \div 2^OCIE1A) % 2 = 1
    /\ Becomes(ISR_Enter(Now))

StopTimer ==
    /\ isrPc = "stop"
    /\ \E ticks \in 0..MaxISRWindowTicks : Becomes(ISR_StopTimer(Now, ticks))

HoldPulse == isrPc = "hold" /\ Becomes(ISR_Hold(Now))

ReleasePulse == isrPc = "release" /\ Becomes(ISR_Release(Now))

Next ==
    \/ EdgeInterrupt
    \/ TimerCount
    \/ CompareMatchInterrupt
    \/ StopTimer
    \/ HoldPulse
    \/ ReleasePulse

Spec == Init /\ [][Next]_vars

(***************************************************************************)
(* The delay generator on its own: any sequence of triggerDelay() and      *)
(* softStart() calls (the edge handler makes either call, as the edge      *)
(* timing decides).                                                        *)
(***************************************************************************)
TriggerDelayCall == isrPc = "idle" /\ Becomes(triggerDelay(Now))

SoftStartCall == isrPc = "idle" /\ Becomes(softStart(Now))

NextDelayGenerator == TriggerDelayCall \/ SoftStartCall

SpecDelay == Init /\ [][NextDelayGenerator]_vars

(***************************************************************************)
(* The trigger scheduler on its own: scheduleTriacTrigger() called with    *)
(* any arguments, the timer hardware and the compare-match routine.        *)
(***************************************************************************)
SinceSamples == {0, 75, 200, 5000}

DelaySamples == {200, 218, 221, 275, 9000, 9687, 9688, 9689, 10000}

ScheduleCall ==
    /\ InterruptsEnabled(Now)
    /\ \E m \in SinceSamples, d \in DelaySamples :
          Becomes(scheduleTriacTrigger(Now, m, d))

NextSched ==
    \/ ScheduleCall
    \/ TimerCount
    \/ CompareMatchInterrupt
    \/ StopTimer
    \/ HoldPulse
    \/ ReleasePulse

SpecSched == Init /\ [][NextSched]_vars

(***************************************************************************)
(* The program near the bottom of the delay ramp.  The initial state is    *)
(* the state after WarmCycles cycles of undisturbed 50 Hz mains: a falling *)
(* edge 9600 us after the rising edge, a rising edge 400 us later, the     *)
(* timer counting to its match and the compare-match routine running.      *)
(***************************************************************************)
WarmCycles == 518

NominalCycle(s) ==
    LET f == voltageCrossedThreshold(s, MicsOf(9600), HIGH, 0)
        r == voltageCrossedThreshold(f, MicsOf(400), LOW, 0)
        c == TimerCounts(r, TicksToMatch(RegsOf(r)))
    IN  IF c.OCF1A THEN ISR_Release(ISR_Hold(ISR_StopTimer(ISR_Enter(c), 0))) ELSE c

\* The state n nominal cycles after the state s (the cycles are run in two
\* halves to keep the evaluation shallow).
RECURSIVE AfterCycles(_, _)
AfterCycles(s, n) ==
    IF n = 0 THEN s
    ELSE IF n = 1 THEN NominalCycle(s)
    ELSE LET half == AfterCycles(s, n \div 2)
         IN  IF half.isrPc = "idle" THEN AfterCycles(half, n - n \div 2) ELSE half

InitLowRamp ==
    \E s \in {AfterCycles(AfterSetup, WarmCycles)} : Is([s EXCEPT !.nEdges = 0])

SpecLowRamp == InitLowRamp /\ [][Next]_vars

(***************************************************************************)
(* The program on mains whose voltage stays below the threshold for 16 us  *)
(* only: it starts from the state after NarrowCycles cycles with a falling *)
(* edge 9984 us after the rising edge, the rising edge 16 us later, and    *)
(* the trigger it schedules.                                               *)
(***************************************************************************)
NarrowCycles == 96

NarrowBelowMics == 16

NarrowCycle(s) ==
    LET f == voltageCrossedThreshold(s, MicsOf(halfPeriodMics - NarrowBelowMics), HIGH, 0)
        r == voltageCrossedThreshold(f, MicsOf(NarrowBelowMics), LOW, 0)
        c == TimerCounts(r, TicksToMatch(RegsOf(r)))
    IN  IF c.OCF1A THEN ISR_Release(ISR_Hold(ISR_StopTimer(ISR_Enter(c), 0))) ELSE c

RECURSIVE AfterNarrowCycles(_, _)
AfterNarrowCycles(s, n) ==
    IF n = 0 THEN s
    ELSE IF n = 1 THEN NarrowCycle(s)
    ELSE LET half == AfterNarrowCycles(s, n \div 2)
         IN  IF half.isrPc = "idle" THEN AfterNarrowCycles(half, n - n \div 2) ELSE half

InitNarrowGap ==
    \E s \in {AfterNarrowCycles(AfterSetup, NarrowCycles)} : Is([s EXCEPT !.nEdges = 0])

SpecNarrowGap == InitNarrowGap /\ [][Next]_vars

(***************************************************************************)
(* The program with scheduleTriacTrigger executed one register write at a  *)
(* time, the timer counting between the writes.                            *)
(***************************************************************************)
\* Most timer ticks that elapse between the first and the last register
\* write of one scheduleTriacTrigger call.
MaxScheduleTicks == 1

\* The edge interrupt is taken and the handler runs up to the first
\* register write of scheduleTriacTrigger, or to its return.
EdgeEnter ==
    /\ InterruptsEnabled(Now)
    /\ edgePc = "idle"
    /\ nEdges < MaxEdges
    /\ \E gap \in Gaps, pinLevel \in {LOW, HIGH}, ticks \in 0..MaxHandlerTicks :
          \E body \in {HandlerBody(Now, gap, pinLevel, ticks)} :
              IF body.call = << >> THEN Becomes(body.state)
              ELSE Becomes(Sched_Begin(body.state, body.call[1].m, body.call[1].d))

SchedWriteTCNT1 == edgePc = "tcnt" /\ Becomes(Sched_WriteTCNT1(Now))

SchedWriteTCCR1A == edgePc = "tccr1a" /\ Becomes(Sched_WriteTCCR1A(Now))

SchedWriteOCR1A == edgePc = "ocr1a" /\ Becomes(Sched_WriteOCR1A(Now))

SchedWriteTCCR1B == edgePc = "tccr1b" /\ Becomes(Sched_WriteTCCR1B(Now))

SchedTick ==
    /\ edgePc \in {"tccr1a", "ocr1a", "tccr1b"}
    /\ Running(RegsOf(Now))
    /\ lastCall.sched[1].ticks < MaxScheduleTicks
    /\ Becomes(Sched_Tick(Now))

NextSteps ==
    \/ EdgeEnter
    \/ SchedWriteTCNT1
    \/ SchedWriteTCCR1A
    \/ SchedWriteOCR1A
    \/ SchedWriteTCCR1B
    \/ SchedTick
    \/ TimerCount
    \/ CompareMatchInterrupt
    \/ StopTimer
    \/ HoldPulse
    \/ ReleasePulse

SpecSteps == Init /\ [][NextSteps]_vars

(***************************************************************************)
(* The program fed ideal 50 Hz mains: rising edges at t = 0, 10000,        *)
(* 20000, ... us and falling edges at t = 9600, 19600, ... us.  The        *)
(* trigger of a half cycle fires before its falling edge.                  *)
(***************************************************************************)
\* Number of edges fed: one period of the delay ramp is 1036 rising edges.
MaxIdealEdges == 2080

\* Time above the threshold and time below it in one ideal half cycle.
IdealAboveMics == 9600

IdealBelowMics == halfPeriodMics - IdealAboveMics

IdealRising ==
    /\ InterruptsEnabled(Now)
    /\ nEdges < MaxIdealEdges
    /\ lastEdge.dir \in {"none", "falling"}
    /\ \E gap \in {IF lastEdge.dir = "none" THEN MicsOf(0) ELSE MicsOf(IdealBelowMics)} :
          \E s \in {voltageCrossedThreshold(Now, gap, LOW, 0)} : Becomes(s)

IdealFalling ==
    /\ InterruptsEnabled(Now)
    /\ nEdges < MaxIdealEdges
    /\ lastEdge.dir = "rising"
    /\ ~Running(RegsOf(Now)) /\ ~OCF1A
    /\ \E s \in {voltageCrossedThreshold(Now, MicsOf(IdealAboveMics), HIGH, 0)} : Becomes(s)

NextIdeal ==
    \/ IdealRising
    \/ IdealFalling
    \/ TimerCount
    \/ CompareMatchInterrupt
    \/ StopTimer
    \/ HoldPulse
    \/ ReleasePulse

SpecIdeal == Init /\ [][NextIdeal]_vars

(***************************************************************************)
(* Properties.                                                             *)
(***************************************************************************)

\* C1: every value returned by triggerDelay() lies in [minDelayMics,
\* maxDelayMics] = [200, 9000], after any sequence of triggerDelay() and
\* softStart() calls.
C1_DelayInRange ==
    \A i \in DOMAIN lastCall.delay :
        lastCall.delay[i] >= 200 /\ lastCall.delay[i] <= 9000

\* C1 witness: the ramp has come down to its lower clamp and turned.
C1_Witness == lastCall.delay = <<200>> /\ stepMics = 17

\* C2 as claimed: the stored holdoff lies in [200, 9000] in every state.
C2_HoldoffAlwaysInRange ==
    triacTriggerHoldoffMics >= 200 /\ triacTriggerHoldoffMics <= 9000

\* C2 amended: the stored holdoff lies in [200, 9000] once triggerDelay()
\* has run, and equals halfPeriodMics = 10000 at initialisation and after
\* each soft start, until the next triggerDelay() call.
C2_HoldoffInRangeOrHalfPeriod ==
    IF lastCall.op = "triggerDelay"
    THEN triacTriggerHoldoffMics >= 200 /\ triacTriggerHoldoffMics <= 9000
    ELSE triacTriggerHoldoffMics = 10000

\* C2 witness: a soft start taken while the ramp was going up.
C2_Witness ==
    lastCall.op = "softStart" /\ stepMics = 17 /\ triacTriggerHoldoffMics = 10000

\* C3 as claimed: after an edge handler whose edge came more than
\* halfPeriodMics of real time after the latest opposite edge, the stored
\* holdoff is halfPeriodMics.
C3_SoftStartAfterLongInterval ==
    lastEdge.over => triacTriggerHoldoffMics = 10000

\* C4 as claimed: a call of scheduleTriacTrigger with delayMics above
\* halfPeriodMics * 31 / 32 = 9687.5 leaves the timer registers unchanged.
C4_NotArmedAbove31Of32 ==
    \A i \in DOMAIN lastCall.sched :
        32 * lastCall.sched[i].d > 31 * 10000
            => lastCall.sched[i].after = lastCall.sched[i].before

\* C4 amended: a call of scheduleTriacTrigger with delayMics above
\* halfPeriodMics - floor(halfPeriodMics / 32) = 9688 leaves the timer
\* registers (counter, compare value, modes) unchanged.
C4_NotArmedAboveCutoff ==
    \A i \in DOMAIN lastCall.sched :
        lastCall.sched[i].d > 9688
            => lastCall.sched[i].after = lastCall.sched[i].before

\* C4 witness: a call with delayMics = 9689 made while the timer was running.
C4_Witness ==
    /\ lastCall.sched # << >>
    /\ lastCall.sched[1].d = 9689
    /\ Running(lastCall.sched[1].before)
    /\ RegsOf(Now) = lastCall.sched[1].before

\* The call armed the timer.
Armed(call) == call.after.TCCR1B = 11 /\ call.after.TCNT1 = 0 /\ ~(call.d > 9688)

Max(a, b) == IF a >= b THEN a ELSE b

\* C5 as claimed: a call that arms the timer with d - m >= 0 programs the
\* compare value max(4, ceil((d - m) / 4)).
C5_CompareValueIsCeiling ==
    \A i \in DOMAIN lastCall.sched :
        LET call == lastCall.sched[i]
        IN  Armed(call) /\ call.d - call.m >= 0
                => call.after.OCR1A = Max(4, (call.d - call.m + 3) \div 4)

\* C5 amended: a call that arms the timer with d - m >= 0 programs the
\* compare value max(4, floor((d - m) / 4)); it is never below 4.
C5_CompareValueIsFloor ==
    \A i \in DOMAIN lastCall.sched :
        LET call == lastCall.sched[i]
        IN  Armed(call) /\ call.d - call.m >= 0
                => /\ call.after.OCR1A = Max(4, (call.d - call.m) \div 4)
                   /\ call.after.OCR1A >= 4

\* C5 witness: calls whose difference is not a multiple of 4 (221 - 200 = 21
\* gives 5 ticks) and calls at the minimum.
C5_Witness ==
    /\ lastCall.sched # << >>
    /\ Armed(lastCall.sched[1])
    /\ lastCall.sched[1].d - lastCall.sched[1].m = 21
    /\ OCR1A = 5

\* C6: the compare-match routine drives the gate low, then stops the timer
\* (TCCR1A = TCCR1B = 0), then holds for the pulse width, then drives the
\* gate high; the gate is high whenever the routine is not executing, and
\* the timer is stopped when the routine returns.
C6_GateSequence ==
    /\ [](isrPc = "idle" => triacTriggerPin = HIGH)
    /\ [](isrPc = "stop" => triacTriggerPin = LOW /\ arm.heldMics = 0)
    /\ [](isrPc = "hold" =>
            triacTriggerPin = LOW /\ TCCR1A = 0 /\ TCCR1B = 0 /\ arm.heldMics = 0)
    /\ [](isrPc = "release" =>
            triacTriggerPin = LOW /\ TCCR1A = 0 /\ TCCR1B = 0 /\ arm.heldMics = 40)
    /\ [][isrPc = "release" /\ isrPc' = "idle" =>
            triacTriggerPin' = HIGH /\ TCCR1A' = 0 /\ TCCR1B' = 0]_vars

\* C6 witness: the routine has held the pulse and is about to release it.
C6_Witness == isrPc = "release" /\ triacTriggerPin = LOW /\ arm.heldMics = 40

\* C7 as claimed (its safety part): a gate pulse is preceded by a call of
\* scheduleTriacTrigger that armed the timer, and one arming produces at
\* most one gate pulse.
C7_AtMostOnePulsePerArm ==
    /\ arm.pulses >= 1 => arm.armed
    /\ arm.pulses <= 1

\* C8 as claimed: a gate pulse starts only when the timer has counted the
\* compare value programmed by the latest arming (OCR1A + 1 ticks in CTC
\* mode): an arming cancels whatever an earlier arming left pending.
C8_NoStalePulse ==
    arm.pulses >= 1 => arm.pulseTicks >= arm.compare + 1

\* The state of the trigger scheduler: Firing while the compare-match
\* routine executes, Armed while the timer counts, Idle otherwise.
SchedulerState(pc, tccr1b) ==
    IF pc # "idle" THEN "Firing" ELSE IF tccr1b % 8 # 0 THEN "Armed" ELSE "Idle"

\* A step of the trigger scheduler from state a to state b that the state
\* machine allows (or no change of state).
AllowedStep(a, b) ==
    \/ a = b
    \/ a = "Idle" /\ b = "Armed"
    \/ a = "Armed" /\ b = "Firing"
    \/ a = "Firing" /\ b = "Idle"

\* C9 as claimed: the trigger scheduler moves only Idle -> Armed, Armed ->
\* Armed, Armed -> Firing and Firing -> Idle; Firing is never entered from
\* Idle and Armed is never entered from Firing.
C9_OnlyStateMachineSteps ==
    [][AllowedStep(SchedulerState(isrPc, TCCR1B), SchedulerState(isrPc', TCCR1B'))]_vars

\* C10 as claimed: every edge handler updates exactly one of the two
\* averages.
C10_EveryEdgeUpdatesOneAverage ==
    lastEdge.dir # "none" => lastEdge.avgWritten # "none"

\* C10 amended: an edge handler that does not soft-start updates exactly
\* one average (rising: below-threshold, above-threshold unchanged; falling:
\* above-threshold, below-threshold unchanged); an edge handler that
\* soft-starts updates neither.
C10_OneAverageUnlessSoftStart ==
    [][nEdges' # nEdges =>
        /\ lastEdge'.softStarted =>
              /\ lastEdge'.avgWritten = "none"
              /\ avgAboveThMics' = avgAboveThMics
              /\ avgBelowThMics' = avgBelowThMics
        /\ ~lastEdge'.softStarted /\ lastEdge'.dir = "rising" =>
              /\ lastEdge'.avgWritten = "below"
              /\ avgAboveThMics' = avgAboveThMics
        /\ ~lastEdge'.softStarted /\ lastEdge'.dir = "falling" =>
              /\ lastEdge'.avgWritten = "above"
              /\ avgBelowThMics' = avgBelowThMics]_vars

\* C10 witness: a rising edge has moved the below-threshold average and
\* left the above-threshold average at its initial value.
C10_Witness ==
    /\ lastEdge.dir = "rising" /\ lastEdge.avgWritten = "below"
    /\ avgBelowThMics # ToFloat(150)
    /\ avgAboveThMics = ToFloat(9600)

\* What C11 requires of one step of the program.
C11_ArmingStep ==
    /\ (TCCR1B' # TCCR1B /\ TCCR1B' # 0) =>
          /\ edgePc = "tccr1b" /\ edgePc' = "idle" /\ nEdges' = nEdges
          /\ lastEdge.dir = "rising" /\ ~lastEdge.softStarted
          /\ TCNT1' <= lastCall'.sched[1].ticks
          /\ TCNT1' < OCR1A'
    /\ OCR1A' # OCR1A => edgePc = "ocr1a" /\ lastEdge.dir = "rising"
    /\ (edgePc = "idle" /\ edgePc' # "idle") =>
          nEdges' = nEdges + 1 /\ edgePc' = "tcnt" /\ lastEdge'.dir = "rising"
    /\ (edgePc # "idle" /\ edgePc' = "idle") => edgePc = "tccr1b"

\* C11: the timer is armed only inside a rising-edge handler that does not
\* soft-start, once per handler run (the handler returns with the write that
\* starts the timer, and scheduleTriacTrigger is entered only as part of the
\* taking of an edge interrupt); and the counter has been reset before the
\* new compare value is written and before the new mode starts the timer:
\* at both moments it holds no more than the ticks counted since the call
\* began, fewer than the compare value.
C11_ArmedOncePerRisingEdgeAfterReset ==
    /\ [](edgePc \in {"ocr1a", "tccr1b"} => TCNT1 <= lastCall.sched[1].ticks)
    /\ [][C11_ArmingStep]_vars

\* C11 witness: a second rising edge has re-armed the timer while it was
\* counting for the first.
C11_Witness ==
    /\ edgePc = "idle" /\ nEdges = 2 /\ lastEdge.dir = "rising"
    /\ lastCall.sched # << >>
    /\ lastCall.sched[1].before.TCCR1B = TimerRunCTC
    /\ lastCall.sched[1].before.TCNT1 > 4
    /\ lastCall.sched[1].after.TCCR1B = TimerRunCTC
    /\ lastCall.sched[1].after.TCNT1 <= 1

\* The timer program (compare value and modes) is the same after a step.
TimerProgramKept ==
    /\ OCR1A' = OCR1A /\ TCCR1A' = TCCR1A /\ TCCR1B' = TCCR1B
    /\ lastCall'.sched = lastCall.sched

\* What C12 requires of one run of the edge handler.
C12_EdgeStep ==
    nEdges' # nEdges =>
        /\ lastEdge'.dir = "falling" => TimerProgramKept
        /\ lastEdge'.softStarted => TimerProgramKept
        /\ lastEdge'.over => TimerProgramKept
        /\ ~TimerProgramKept => lastEdge'.dir = "rising" /\ ~lastEdge'.over

\* C12 as claimed: the timer is armed only by a rising edge that comes at
\* most halfPeriodMics of real time after the latest falling edge; a falling
\* edge, a soft-start edge and an edge that comes later than that leave the
\* timer program unchanged.
C12_ArmedOnlyByTimelyRisingEdge == [][C12_EdgeStep]_vars

\* The step is one call of triggerDelay(): the ramp has advanced by one
\* step and the value returned is the new holdoff.
RampAdvancedOnce ==
    /\ triacTriggerHoldoffMics' = NextDelay(triacTriggerHoldoffMics, stepMics).holdoff
    /\ stepMics' = NextDelay(triacTriggerHoldoffMics, stepMics).step
    /\ lastCall'.op = "triggerDelay"
    /\ lastCall'.delay = <<triacTriggerHoldoffMics'>>

\* The step makes no call of triggerDelay(): the step of the ramp and the
\* latest value returned are as before, and the holdoff is as before or has
\* been reset by a soft start.
RampNotAdvanced ==
    /\ stepMics' = stepMics
    /\ lastCall'.delay = lastCall.delay
    /\ triacTriggerHoldoffMics' \in {triacTriggerHoldoffMics, halfPeriodMics}
    /\ lastCall'.op # "triggerDelay" \/ lastCall'.op = lastCall.op

\* What C13 as claimed requires of one step of the program.
C13_ClaimedStep ==
    IF nEdges' # nEdges /\ lastEdge'.dir = "rising"
    THEN RampAdvancedOnce ELSE RampNotAdvanced

\* C13 as claimed: triggerDelay() is called exactly once by every rising-edge
\* handler and by nothing else.
C13_DelayOncePerRisingEdge == [][C13_ClaimedStep]_vars

\* What C13 amended requires of one step of the program.
C13_AmendedStep ==
    IF nEdges' # nEdges /\ lastEdge'.dir = "rising" /\ ~lastEdge'.softStarted
    THEN RampAdvancedOnce ELSE RampNotAdvanced

\* C13 amended: triggerDelay() is called exactly once by every rising-edge
\* handler that does not soft-start, and never by a rising-edge handler that
\* soft-starts, by a falling-edge handler or by the compare-match routine.
C13_DelayOncePerRisingEdgeUnlessSoftStart == [][C13_AmendedStep]_vars

\* C13 witness: the second of two rising edges has taken the second value
\* of the ramp.
C13_Witness ==
    /\ nEdges = 2 /\ lastEdge.dir = "rising" /\ ~lastEdge.softStarted
    /\ lastCall.delay = <<9000>> /\ stepMics = -17

\* The variables of the program other than the stored holdoff.
FrameOfSoftStart ==
    {"avgAboveThMics", "avgBelowThMics", "stepMics", "tsLastAboveThMics",
     "tsLastBelowThMics", "TCNT1", "OCR1A", "TCCR1A", "TCCR1B", "TIMSK1", "OCF1A",
     "triacTriggerPin", "detectOutPin"}

\* What C14 requires of one run of the edge handler that soft-starts.
C14_SoftStartStep ==
    (nEdges' # nEdges /\ lastEdge'.softStarted) =>
        /\ triacTriggerHoldoffMics' = halfPeriodMics
        /\ stepMics' = stepMics
        /\ avgAboveThMics' = avgAboveThMics /\ avgBelowThMics' = avgBelowThMics
        /\ TimerProgramKept
        /\ (TCCR1B' % 8 # 0) = (TCCR1B % 8 # 0)
        /\ OCF1A => OCF1A'
        /\ arm'.armed = arm.armed /\ arm'.compare = arm.compare
        /\ arm'.pulses = arm.pulses

\* C14: softStart() changes the stored holdoff and nothing else, and an edge
\* handler that soft-starts leaves the step of the ramp, both averages and
\* the timer program as they were: a timer that was counting keeps counting
\* towards the same compare value and a raised compare match stays raised.
C14_SoftStartChangesOnlyHoldoff ==
    /\ [](\A f \in FrameOfSoftStart : softStart(Now)[f] = Now[f])
    /\ [](softStart(Now).triacTriggerHoldoffMics = halfPeriodMics)
    /\ [][C14_SoftStartStep]_vars

\* C14 witness: a soft start taken while the ramp was going up and the
\* timer was counting for a trigger that has not fired.
C14_Witness ==
    /\ lastEdge.softStarted /\ lastCall.op = "softStart"
    /\ triacTriggerHoldoffMics = halfPeriodMics /\ stepMics = 17
    /\ TCCR1B = TimerRunCTC /\ arm.armed /\ arm.pulses = 0

Abs(x) == IF x >= 0 THEN x ELSE 0 - x

\* The k-th delay (k >= 1) of the triangular ramp between 200 and 9000 us
\* with steps of 17 us that starts from the initial holdoff: 9000, then a
\* period of 1036 values, 518 down from 9000 to 200 and 518 up again.
Triangle(k) ==
    IF k = 1 THEN 9000
    ELSE LET j == (k - 2) % 1036
         IN  IF j <= 517 THEN 9000 - 17 * j
             ELSE IF j = 518 THEN 200
             ELSE 200 + 17 * (j - 518)

\* The average moved from avg to avg2 by 1/32 of its distance to the
\* sample, to the precision of float (half a unit in the last place of a
\* value below 512 is 2^-16).
MovedBy32nd(avg, avg2, sample) ==
    Abs(32 * (avg2 - avg) - (ToFloat(sample) - avg)) <= 32 * (FloatUnit \div 2^16)

\* The rising-edge handler passed the k-th delay of the ramp to the
\* scheduler, k being the number of rising edges so far.
C15_RampStep ==
    (nEdges' # nEdges /\ lastEdge'.dir = "rising") =>
        /\ lastEdge'.scheduled
        /\ lastCall'.sched # << >>
        /\ lastCall'.sched[1].d = Triangle((nEdges' + 1) \div 2)

\* What C15 as claimed requires of one step: the below-threshold average
\* moves towards 9600 and the above-threshold average towards 150.
C15_ClaimedStep ==
    /\ C15_RampStep
    /\ (nEdges' # nEdges /\ lastEdge'.dir = "rising" /\ nEdges > 0) =>
          MovedBy32nd(avgBelowThMics, avgBelowThMics', 9600)
    /\ (nEdges' # nEdges /\ lastEdge'.dir = "falling") =>
          MovedBy32nd(avgAboveThMics, avgAboveThMics', 150)

\* C15 as claimed: under ideal 50 Hz edges the below-threshold average
\* converges toward 9600 and the above-threshold average toward 150, each
\* sample moving its average by 1/32 of the distance, and the delays passed
\* to the scheduler trace the triangular ramp.
C15_AveragesTowards9600And150 == [][C15_ClaimedStep]_vars

\* What C15 amended requires of one step: the samples are 400 us below the
\* threshold (after the first rising edge, whose sample is 0) and 9600 us
\* above it.
C15_AmendedStep ==
    /\ C15_RampStep
    /\ (nEdges' # nEdges /\ lastEdge'.dir = "rising" /\ nEdges > 0) =>
          /\ MovedBy32nd(avgBelowThMics, avgBelowThMics', 400)
          /\ avgBelowThMics' >= avgBelowThMics
    /\ (nEdges' # nEdges /\ lastEdge'.dir = "falling") =>
          /\ MovedBy32nd(avgAboveThMics, avgAboveThMics', 9600)
          /\ avgBelowThMics' = avgBelowThMics

\* C15 amended: under ideal 50 Hz edges the above-threshold average stays at
\* 9600 and the below-threshold average rises toward 400 (within 40 us after
\* 64 cycles, within 1/8 us after 256 cycles, never above 400), each sample
\* moving its average by 1/32 of the distance; the delays passed to the
\* scheduler trace the triangular ramp 9000, 9000, 8983, ..., 200, 217, ...
C15_AveragesTowards400And9600 ==
    /\ [](avgAboveThMics = ToFloat(9600))
    /\ [](avgBelowThMics <= ToFloat(400))
    /\ [](nEdges >= 129 => ToFloat(400) - avgBelowThMics <= ToFloat(40))
    /\ [](nEdges >= 513 => ToFloat(400) - avgBelowThMics <= FloatUnit \div 8)
    /\ [][C15_AmendedStep]_vars

\* C15 witness: the ramp has come down to 200 us and turned, and the
\* below-threshold average has settled next to 400.
C15_Witness ==
    /\ lastEdge.dir = "rising" /\ lastCall.delay = <<217>> /\ stepMics = 17
    /\ nEdges = 2 * 521 - 1
    /\ ToFloat(400) - avgBelowThMics <= FloatUnit \div 8
    /\ avgAboveThMics = ToFloat(9600)

\* What C16 requires of one step: no edge handler starts while the
\* compare-match routine executes, and the compare-match routine does not
\* start (no gate pulse begins) while the edge handler is between the first
\* and the last register write of scheduleTriacTrigger.
C16_ExclusiveStep ==
    /\ isrPc # "idle" => nEdges' = nEdges /\ edgePc' = "idle"
    /\ edgePc # "idle" => isrPc' = "idle" /\ triacTriggerPin' = triacTriggerPin

\* C16: the two handlers never interleave: in no state are the edge handler
\* (inside scheduleTriacTrigger) and the compare-match routine both in
\* progress, and neither starts while the other is in progress.
C16_HandlersDoNotInterleave ==
    /\ [](~(edgePc # "idle" /\ isrPc # "idle"))
    /\ [][C16_ExclusiveStep]_vars

\* C16 witness: the edge handler is reprogramming a running timer whose
\* compare match is raised; the compare-match routine has to wait.
C16_Witness ==
    /\ edgePc = "ocr1a" /\ isrPc = "idle"
    /\ OCF1A /\ (TIMSK1 \div 2^OCIE1A) % 2 = 1

\* The timer registers the two handlers program, and the data of the edge
\* handler.
TimerRegisters == {"TCNT1", "TCCR1A", "OCR1A", "TCCR1B"}

EdgeData ==
    {"avgAboveThMics", "avgBelowThMics", "tsLastAboveThMics",
     "tsLastBelowThMics", "triacTriggerHoldoffMics", "stepMics"}

WrittenBy(handler) == {w[2] : w \in {x \in writers : x[1] = handler}}

\* A step that is not the entry of the edge handler leaves the averages, the
\* timestamps, the holdoff and the step as they are.
C17_DataStep ==
    nEdges' = nEdges =>
        /\ avgAboveThMics' = avgAboveThMics
        /\ avgBelowThMics' = avgBelowThMics
        /\ tsLastAboveThMics' = tsLastAboveThMics
        /\ tsLastBelowThMics' = tsLastBelowThMics
        /\ triacTriggerHoldoffMics' = triacTriggerHoldoffMics
        /\ stepMics' = stepMics

\* A step of the compare-match routine leaves the compare register as it is.
C17_ExpiryStep ==
    (isrPc' # isrPc \/ isrPc # "idle") => OCR1A' = OCR1A

\* C17 as claimed: only one of the two handlers ever writes the timer
\* registers, and only the edge handler ever writes the running averages,
\* the last-edge timestamps, the holdoff and the step.
C17_OneHandlerWritesTimer ==
    /\ [](WrittenBy("edge") \cap TimerRegisters = {}
             \/ WrittenBy("expiry") \cap TimerRegisters = {})
    /\ [](WrittenBy("expiry") \cap EdgeData = {})
    /\ [][C17_DataStep]_vars

\* C17 amended: both handlers write the timer control registers: the
\* compare-match routine writes TCCR1A and TCCR1B (to stop the timer) and
\* nothing else, the edge handler writes TCNT1, TCCR1A, OCR1A and TCCR1B; the
\* counter and the compare register are written by the edge handler only,
\* and only the edge handler writes the running averages, the last-edge
\* timestamps, the holdoff and the step.
C17_ExpiryWritesOnlyControlRegisters ==
    /\ [](WrittenBy("expiry") \subseteq {"TCCR1A", "TCCR1B"})
    /\ [](WrittenBy("edge") \subseteq TimerRegisters \cup EdgeData)
    /\ [][C17_DataStep]_vars
    /\ [][C17_ExpiryStep]_vars

\* C17 witness: the edge handler has updated an average and armed the timer,
\* and the compare-match routine has stopped it: TCCR1B was written by both.
C17_Witness ==
    /\ <<"edge", "TCCR1B">> \in writers /\ <<"expiry", "TCCR1B">> \in writers
    /\ <<"edge", "avgBelowThMics">> \in writers
    /\ <<"edge", "OCR1A">> \in writers
    /\ arm.pulses >= 1 /\ ~Running(RegsOf(Now))

\* A step that is a call of triggerDelay(), in the delay generator on its
\* own.
TriggerDelayCalled ==
    /\ lastCall'.op = "triggerDelay"
    /\ <<triacTriggerHoldoffMics, stepMics, lastCall>>' #
           <<triacTriggerHoldoffMics, stepMics, lastCall>>

\* What C18 requires of one call.
C18_CallStep ==
    TriggerDelayCalled =>
        LET sum == triacTriggerHoldoffMics + stepMics
        IN  /\ sum <= 200 =>
                  /\ triacTriggerHoldoffMics' = 200
                  /\ stepMics' = 0 - stepMics
            /\ (sum > 200 /\ sum >= 9000) =>
                  /\ triacTriggerHoldoffMics' = 9000
                  /\ stepMics' = 0 - stepMics
            /\ (sum > 200 /\ sum < 9000) =>
                  /\ triacTriggerHoldoffMics' = sum
                  /\ stepMics' = stepMics
            /\ lastCall'.delay = <<triacTriggerHoldoffMics'>>
            /\ stepMics' # stepMics <=> lastCall'.delay[1] \in {200, 9000}
            /\ lastCall.op = "triggerDelay" =>
                  Abs(lastCall'.delay[1] - lastCall.delay[1]) <= 17

\* The returned delays lie on the triangle: going down they are 9000 less
\* a multiple of 17, going up 200 plus a multiple of 17 (or the 9000 that
\* starts a ramp).
C18_OnTriangle ==
    lastCall.op = "triggerDelay" =>
        /\ triacTriggerHoldoffMics >= 200 /\ triacTriggerHoldoffMics <= 9000
        /\ stepMics = -17 => (9000 - triacTriggerHoldoffMics) % 17 = 0
        /\ stepMics = 17 => \/ (triacTriggerHoldoffMics - 200) % 17 = 0
                            \/ triacTriggerHoldoffMics = 9000

\* C18: each triggerDelay() call adds the step to the holdoff; a result
\* <= 200 is clamped to 200 and the step changes sign, else a result >= 9000
\* is clamped to 9000 and the step changes sign, otherwise both are kept.
\* The step magnitude is 17 in every state, the sign changes exactly on the
\* calls that return 200 or 9000, successive returned delays with no soft
\* start between them differ by at most 17, and the returned delays lie on
\* the triangle between 200 and 9000.
C18_TriangularRamp ==
    /\ [](Abs(stepMics) = 17)
    /\ [](C18_OnTriangle)
    /\ [][C18_CallStep]_vars

\* C18 witness: the ramp has gone down from 9000 to 200 and up again, and
\* has just turned at 9000.
C18_Witness ==
    /\ lastCall.op = "triggerDelay" /\ lastCall.delay = <<9000>>
    /\ stepMics = -17
    /\ Len(lastCall.run) >= 3
    /\ SubSeq(lastCall.run, 1, 3) = <<9000, 9000, 8983>>

\* C19: after initialisation and after every soft start the first delay
\* triggerDelay() returns is 9000, whichever way the step points; the
\* delays returned after it do not exceed 9000, and 8983 is returned by
\* the third call at the latest.
C19_RampResumesFromMaxDelay ==
    /\ Len(lastCall.run) >= 1 => lastCall.run[1] = 9000
    /\ \A i \in DOMAIN lastCall.run : lastCall.run[i] <= 9000
    /\ Len(lastCall.run) >= 3 =>
          lastCall.run[2] = 8983 \/ lastCall.run[3] = 8983
    /\ lastCall.op = "triggerDelay" => triacTriggerHoldoffMics <= 9000

\* C19 witness: a soft start taken while the step pointed up; the next
\* three delays are 9000, 8983 and 8966.
C19_Witness ==
    /\ lastCall.op = "triggerDelay"
    /\ Len(lastCall.run) >= 3
    /\ SubSeq(lastCall.run, 1, 3) = <<9000, 8983, 8966>>

\* What C20 requires of one run of the edge handler: a rising edge whose
\* interval since the latest falling edge is at most halfPeriodMics does
\* not soft-start; a rising edge that does not soft-start passes a delay of
\* at most 9000 to scheduleTriacTrigger, which does not take its cutoff
\* return and arms the timer with a compare value in 4..2250.
C20_EdgeStep ==
    (nEdges' # nEdges /\ lastEdge'.dir = "rising") =>
        /\ (realSinceFalling' # << >>
              /\ ~MicsExceeds(realSinceFalling'[1], halfPeriodMics))
           => ~lastEdge'.softStarted
        /\ ~lastEdge'.softStarted =>
              /\ lastEdge'.scheduled
              /\ lastCall'.sched # << >>
              /\ lastCall'.sched[1].d = lastCall'.delay[1]
              /\ lastCall'.sched[1].d <= 9000
              /\ ~PastCutoff(lastCall'.sched[1].d)
              /\ TCCR1B' = TimerRunCTC /\ TCNT1' = 0
              /\ OCR1A' >= 4 /\ OCR1A' <= 2250
              /\ arm'.armed /\ arm'.compare = OCR1A' /\ arm'.pulses = 0

\* The delays passed and the compare values programmed.
C20_DelayAndCompareInRange ==
    /\ \A i \in DOMAIN lastCall.sched : lastCall.sched[i].d <= 9000
    /\ arm.armed => arm.compare >= 4 /\ arm.compare <= 2250
    /\ Running(RegsOf(Now)) => OCR1A >= 4 /\ OCR1A <= 2250

\* C20 as claimed: every delay passed to scheduleTriacTrigger by the edge
\* handler is at most 9000, the cutoff return is never taken, every rising
\* edge with an interval of at most halfPeriodMics arms the timer, the
\* compare value is in 4..2250, and the trigger pulse starts no later than
\* 9000 us (2250 timer ticks of 4 us) after the rising edge that armed the
\* timer, the time the handler takes to reach the counter reset included.
C20_FiresWithin9000OfRisingEdge ==
    /\ [](C20_DelayAndCompareInRange)
    /\ []((arm.pulses >= 1 /\ lastEdge.scheduled) =>
             4 * (lastEdge.handlerTicks + arm.pulseTicks) <= 9000)
    /\ [][C20_EdgeStep]_vars

\* C20 amended: every delay passed to scheduleTriacTrigger by the edge
\* handler is at most 9000, the cutoff return is never taken, every rising
\* edge with an interval of at most halfPeriodMics arms the timer, the
\* compare value is in 4..2250, the compare match is raised no later than
\* 2251 timer ticks (9004 us) after the handler has reset the counter, and
\* the trigger pulse starts then unless another edge handler runs first.
C20_FiresWithin2251TicksOfReset ==
    /\ [](C20_DelayAndCompareInRange)
    /\ []((Running(RegsOf(Now)) /\ arm.armed /\ arm.pulses = 0 /\ ~OCF1A) =>
             arm.ticks <= arm.compare)
    /\ []((arm.pulses >= 1 /\ lastEdge.scheduled) => arm.pulseTicks <= 2251)
    /\ [][C20_EdgeStep]_vars

\* C20 witness: after a soft start a rising edge has passed the delay 9000,
\* the timer has been armed with a compare value just below 2250, and the
\* pulse has started more than 9000 us after the edge.
C20_Witness ==
    /\ lastEdge.dir = "rising" /\ lastEdge.scheduled
    /\ lastCall.sched # << >> /\ lastCall.sched[1].d = 9000
    /\ arm.pulses = 1 /\ arm.compare >= 2245 /\ arm.compare <= 2250
    /\ arm.pulseTicks = arm.compare + 1
    /\ 4 * (lastEdge.handlerTicks + arm.pulseTicks) > 9000

====
